---- MODULE Spec2Model ----
(***************************************************************************)
(* Model of `reth db checksum` (bin/reth/src/commands/db/checksum.rs):     *)
(* ChecksumViewer::get_checksum walks a key range of one table with a raw  *)
(* read-only cursor, feeds every record's raw key and raw value to a       *)
(* seeded hasher, stops at an optional limit, and ChecksumViewer::view     *)
(* reports the checksum.                                                   *)
(*                                                                         *)
(* One loop iteration of get_checksum is one step of the model.  The       *)
(* command is executed twice over the same store snapshot, so that two     *)
(* runs can be compared.  The elapsed time of the returned pair and the    *)
(* progress log lines (no effect on the walk) are not modelled.            *)
(***************************************************************************)
EXTENDS Integers, Sequences, FiniteSets

(* ------------------------------ bounds --------------------------------- *)
\* Typed keys are 1..MaxKey.
MaxKey == 3
\* A table holds at most MaxLen records.
MaxLen == 3
\* --limit is drawn from 0..MaxLimit (or absent).
MaxLimit == 2
\* Width of the modelled hash state (the model's stand-in for u64).
HashMod == 65521
\* usize::MAX; TLC's integers are 32 bits wide, every reachable count is far
\* below this value.
UsizeMax == 2147483647

(* ------------------------------ Option --------------------------------- *)
None == <<>>
Some(x) == <<x>>
IsSome(o) == o # <<>>
Unwrap(o) == o[1]

(* ------------------------ keys, values, records ------------------------- *)
Keys == 1..MaxKey

\* table_key::<T>(text).map(RawKey::new): the raw bytes of a typed key.
Encode(k) == <<k>>

\* RawKey::key(): the typed key of raw bytes; fails on bytes that are not an
\* encoding.
Decodable(raw) == Len(raw) = 1
Decode(raw) == raw[1]

\* Raw key bytes present in a store that are no encoding of any typed key.
CorruptKey == <<1, 0>>

RawKeys == {Encode(k) : k \in Keys} \cup {CorruptKey}
Vals == {<<7>>, <<8, 9>>}

\* Byte-wise lexicographic order, the order of RawKey (a Vec<u8>) and of the
\* store.
LexLess(a, b) ==
    \E i \in 1..(Len(a) + 1) :
        /\ \A j \in 1..(i - 1) : j <= Len(b) /\ a[j] = b[j]
        /\ \/ i = Len(a) + 1 /\ Len(b) >= i
           \/ i <= Len(a) /\ i <= Len(b) /\ a[i] < b[i]
LexLeq(a, b) == a = b \/ LexLess(a, b)

\* A record of the store: raw key, raw value, and whether the cursor can
\* read it (an unreadable record makes the cursor yield an error).
Records ==
    {[key |-> k, value |-> v, readable |-> TRUE] : k \in RawKeys, v \in Vals}
    \cup {[key |-> k, value |-> <<>>, readable |-> FALSE] : k \in RawKeys}

RecLess(a, b) ==
    LexLess(a.key, b.key) \/ (a.key = b.key /\ LexLess(a.value, b.value))

\* The snapshots: records in the store's order (by key, then by value for
\* duplicate keys of a DupSort table).
Tables ==
    {t \in UNION {[1..n -> Records] : n \in 0..MaxLen} :
        \A i \in 1..(Len(t) - 1) : RecLess(t[i], t[i + 1])}

OptKeys == {None} \cup {Some(k) : k \in Keys}
OptLimits == {None} \cup {Some(n) : n \in 0..MaxLimit}

(* ------------------------------ hasher ---------------------------------- *)
RECURSIVE WriteBytes(_, _)
WriteBytes(s, bs) ==
    IF bs = <<>> THEN s
    ELSE WriteBytes((s * 31 + Head(bs)) % HashMod, Tail(bs))

\* Hasher::write: mixes the chunk (length first) into the state.  `written`
\* records the chunks this hasher has been given, in order.
Write(h, bs) ==
    [state |-> WriteBytes((h.state * 31 + Len(bs)) % HashMod, bs),
     written |-> Append(h.written, bs)]

\* RandomState::with_seeds(k0, k1, k2, k3).build_hasher()
WithSeeds(k0, k1, k2, k3) ==
    [state |-> WriteBytes(0, <<k0, k1, k2, k3>>), written |-> <<>>]

\* Hasher::finish
Finish(h) == (h.state * 251 + 13) % HashMod

VARIABLES
    table,                \* the store snapshot of the table
    start_key,            \* self.start_key (parsed)
    end_key,              \* self.end_key (parsed)
    limit,                \* self.limit
    pc,                   \* "idle", "loop" or "done"
    walker,               \* the RangeWalker under enumerate()
    hasher,
    total,
    enumerate_start_key,
    enumerate_end_key,
    result,               \* what get_checksum returned
    out,                  \* the checksum view logged
    visited,              \* the records the loop body has processed
    prev                  \* the outcome of the previous execution

vars == <<table, start_key, end_key, limit, pc, walker, hasher, total,
          enumerate_start_key, enumerate_end_key, result, out, visited, prev>>

(* --------------------------- get_checksum ------------------------------- *)
\* The match on (start_key, end_key): the raw bounds of the walk, both
\* inclusive, None for an unbounded side.
ResolveRangeNoStart(s, e) ==
    [start |-> None,
     end |-> IF IsSome(e) THEN Some(Encode(Unwrap(e))) ELSE None]
ResolveRange(s, e) ==
    CASE IsSome(s) /\ IsSome(e) ->
            [start |-> Some(Encode(Unwrap(s))), end |-> Some(Encode(Unwrap(e)))]
      [] ~IsSome(s) /\ IsSome(e) ->
            [start |-> None, end |-> Some(Encode(Unwrap(e)))]
      [] IsSome(s) /\ ~IsSome(e) ->
            [start |-> Some(Encode(Unwrap(s))), end |-> None]
      [] OTHER -> [start |-> None, end |-> None]

\* cursor.walk_range(range): the cursor is positioned on the first record
\* whose key is >= the start bound.
WalkRange(range) ==
    [pos |-> IF IsSome(range.start)
             THEN Cardinality({i \in 1..Len(table) :
                                  LexLess(table[i].key, Unwrap(range.start))}) + 1
             ELSE 1,
     end |-> range.end,
     index |-> 0]

\* walker.enumerate().next(): "none" past the table or the end bound, else
\* the record under the cursor, or an error when it cannot be read.
WalkerNext(w) ==
    IF w.pos > Len(table) THEN [kind |-> "none"]
    ELSE IF IsSome(w.end) /\ LexLess(Unwrap(w.end), table[w.pos].key)
         THEN [kind |-> "none"]
    ELSE IF ~table[w.pos].readable THEN [kind |-> "err"]
    ELSE [kind |-> "ok", index |-> w.index, rec |-> table[w.pos]]

Advance(w) == [w EXCEPT !.pos = @ + 1, !.index = @ + 1]

BuildHasherPerRun == WithSeeds(1, 2, 3, IF pc = "idle" THEN 4 ELSE 5)
BuildHasher == WithSeeds(1, 2, 3, 4)

Limit(l) == IF IsSome(l) THEN Unwrap(l) ELSE UsizeMax

HashRecordValueFirst(h, k, v) == Write(Write(h, v), k)
HashRecord(h, k, v) == Write(Write(h, k), v)

TrackStartAlways(cur, k) == Some(k)
TrackStart(cur, k) == IF cur = None THEN Some(k) ELSE cur

TrackEndOnce(cur, k) == IF cur = None THEN Some(k) ELSE cur
TrackEnd(cur, k) == Some(k)

Break(t, lim) == t >= lim

Ok(c) == [ok |-> TRUE, checksum |-> c, err |-> ""]
Err(e) == [ok |-> FALSE, checksum |-> 0, err |-> e]

\* After the loop: the tracked keys are decoded for the log (`key()?`), then
\* the hasher is finished and returned.
ReturnNeedsKeys(h, s, e) ==
    IF IsSome(s) /\ IsSome(e) /\ Decodable(Unwrap(s)) /\ Decodable(Unwrap(e))
    THEN Ok(Finish(h))
    ELSE Err("decode")
Return(h, s, e) ==
    IF IsSome(s) /\ IsSome(e)
       /\ (~Decodable(Unwrap(s)) \/ ~Decodable(Unwrap(e)))
    THEN Err("decode")
    ELSE Ok(Finish(h))

\* `entry?` on an error of the cursor.
EntryErrBreak(h, s, e) == Some(Return(h, s, e))
EntryErr(h, s, e) == Some(Err("read"))

\* ChecksumViewer::view: get_checksum's error is propagated, its checksum is
\* logged.
View(res) ==
    IF IsSome(res) /\ Unwrap(res).ok THEN Some(Unwrap(res).checksum) ELSE None

\* What an execution leaves behind.
Outcome ==
    [start_key |-> start_key, end_key |-> end_key, limit |-> limit,
     result |-> Unwrap(result), total |-> total,
     first |-> enumerate_start_key, end |-> enumerate_end_key,
     visited |-> visited, written |-> hasher.written]

\* The arguments of a second execution: the same ones, the same range
\* without a limit, or the range the first execution reported.
FollowUps ==
    {<<start_key, end_key, limit>>, <<start_key, end_key, None>>}
    \cup (IF Unwrap(result).ok /\ IsSome(enumerate_start_key)
          THEN {<<Some(Decode(Unwrap(enumerate_start_key))),
                  Some(Decode(Unwrap(enumerate_end_key))), None>>}
          ELSE {})

CanExecute(s, e, l) ==
    IF pc = "idle" THEN TRUE
    ELSE pc = "done" /\ prev = None /\ <<s, e, l>> \in FollowUps

Init ==
    /\ table \in Tables
    /\ prev = None
    /\ start_key = None
    /\ end_key = None
    /\ limit = None
    /\ pc = "idle"
    /\ walker = WalkRange(ResolveRange(None, None))
    /\ hasher = BuildHasher
    /\ total = 0
    /\ enumerate_start_key = None
    /\ enumerate_end_key = None
    /\ result = None
    /\ out = None
    /\ visited = <<>>

\* Command::execute up to the loop of get_checksum.
Execute(s, e, l) ==
    /\ CanExecute(s, e, l)
    /\ prev' = IF pc = "done" THEN Some(Outcome) ELSE prev
    /\ start_key' = s
    /\ end_key' = e
    /\ limit' = l
    /\ walker' = WalkRange(ResolveRange(s, e))
    /\ hasher' = BuildHasher
    /\ total' = 0
    /\ enumerate_start_key' = None
    /\ enumerate_end_key' = None
    /\ result' = None
    /\ out' = None
    /\ visited' = <<>>
    /\ pc' = "loop"
    /\ UNCHANGED table

\* One iteration of the loop on a record the cursor could read.
LoopStep ==
    /\ pc = "loop"
    /\ WalkerNext(walker).kind = "ok"
    /\ LET entry == WalkerNext(walker)
           k == entry.rec.key
           v == entry.rec.value
           brk == Break(entry.index + 1, Limit(limit))
       IN /\ hasher' = HashRecord(hasher, k, v)
          /\ enumerate_start_key' = TrackStart(enumerate_start_key, k)
          /\ enumerate_end_key' = TrackEnd(enumerate_end_key, k)
          /\ total' = entry.index + 1
          /\ visited' = Append(visited, entry.rec)
          /\ walker' = Advance(walker)
          /\ result' = IF brk
                       THEN Some(Return(hasher', enumerate_start_key',
                                        enumerate_end_key'))
                       ELSE None
          /\ pc' = IF brk THEN "done" ELSE "loop"
    /\ out' = View(result')
    /\ UNCHANGED <<table, start_key, end_key, limit, prev>>

\* The cursor yields an error: `entry?` returns it.
LoopErr ==
    /\ pc = "loop"
    /\ WalkerNext(walker).kind = "err"
    /\ result' = EntryErr(hasher, enumerate_start_key, enumerate_end_key)
    /\ out' = View(result')
    /\ pc' = "done"
    /\ UNCHANGED <<table, start_key, end_key, limit, walker, hasher, total,
                   enumerate_start_key, enumerate_end_key, visited, prev>>

\* The walker is exhausted.
LoopEnd ==
    /\ pc = "loop"
    /\ WalkerNext(walker).kind = "none"
    /\ result' = Some(Return(hasher, enumerate_start_key, enumerate_end_key))
    /\ out' = View(result')
    /\ pc' = "done"
    /\ UNCHANGED <<table, start_key, end_key, limit, walker, hasher, total,
                   enumerate_start_key, enumerate_end_key, visited, prev>>

Next ==
    \/ \E s \in OptKeys, e \in OptKeys, l \in OptLimits : Execute(s, e, l)
    \/ LoopStep
    \/ LoopErr
    \/ LoopEnd

Spec == Init /\ [][Next]_vars

(* ===================== properties of get_checksum ======================= *)
\* Whether raw key k lies in the range the arguments s, e ask for.
KeyInRange(k, s, e) ==
    /\ IsSome(s) => LexLeq(Encode(Unwrap(s)), k)
    /\ IsSome(e) => LexLeq(k, Encode(Unwrap(e)))

\* The records of the table in the requested range, in the table's order.
InRangeOf(s, e) == SelectSeq(table, LAMBDA r : KeyInRange(r.key, s, e))
InRange == InRangeOf(start_key, end_key)

RECURSIVE KeyValueChunks(_)
KeyValueChunks(recs) ==
    IF recs = <<>> THEN <<>>
    ELSE <<Head(recs).key, Head(recs).value>> \o KeyValueChunks(Tail(recs))

RECURSIVE WriteAll(_, _)
WriteAll(h, chunks) ==
    IF chunks = <<>> THEN h ELSE WriteAll(Write(h, Head(chunks)), Tail(chunks))

Min(a, b) == IF a < b THEN a ELSE b
Returned == pc = "done"
ReturnedOk == pc = "done" /\ Unwrap(result).ok
AllReadable(recs) == \A i \in 1..Len(recs) : recs[i].readable
DistinctKeys == \A i, j \in 1..Len(table) : i # j => table[i].key # table[j].key
\* Position in the range of the first record the cursor cannot read (0: none).
FirstBad ==
    IF AllReadable(InRange) THEN 0
    ELSE CHOOSE i \in 1..Len(InRange) :
            /\ ~InRange[i].readable
            /\ \A j \in 1..(i - 1) : InRange[j].readable

\* C1: with a limit L (L = 0 included) and a range of N > L records, a walk
\* that returns has counted exactly L records, has processed exactly the
\* first L records of the range, and its last tracked key is the key of the
\* L-th record.
C1_LimitExact ==
    (ReturnedOk /\ IsSome(limit) /\ Len(InRange) > Limit(limit)) =>
        /\ total = Limit(limit)
        /\ visited = SubSeq(InRange, 1, Limit(limit))
        /\ hasher.written = KeyValueChunks(SubSeq(InRange, 1, Limit(limit)))
        /\ enumerate_end_key =
              IF Limit(limit) = 0 THEN None
              ELSE Some(InRange[Limit(limit)].key)

\* The same statement for L >= 1, which the code satisfies.
C1_LimitExactPositive ==
    (Limit(limit) >= 1) => C1_LimitExact

\* C2: with no limit and every record of the range readable, the records
\* visited are exactly the table's records with start_key <= key <= end_key
\* (an absent bound does not constrain), in the table's order.
C2_RangeVisited ==
    (Returned /\ limit = None /\ AllReadable(InRange)) =>
        /\ visited = InRange
        /\ \A i \in 1..Len(visited) :
              KeyInRange(visited[i].key, start_key, end_key)
        /\ (start_key = None /\ end_key = None) => visited = table

C2_Witness ==
    /\ Returned /\ limit = None
    /\ start_key = Some(2) /\ end_key = Some(2)
    /\ Len(table) = 3 /\ AllReadable(table)
    /\ table[1].key = Encode(1) /\ table[3].key = Encode(3)
    /\ Len(visited) = 1 /\ visited[1].key = Encode(2)

\* C3: at every point the chunks written to the hasher are key, value, key,
\* value, ... of the visited records in visitation order, and the hasher is
\* the seeded hasher with exactly these writes applied.
C3_FedKeyThenValue ==
    /\ hasher.written = KeyValueChunks(visited)
    /\ hasher = WriteAll(WithSeeds(1, 2, 3, 4), KeyValueChunks(visited))

C3_Witness ==
    /\ ReturnedOk /\ Len(visited) >= 2
    /\ Len(hasher.written) = 4
    /\ hasher.written[1] = visited[1].key /\ hasher.written[2] = visited[1].value
    /\ visited[1].value # visited[2].value

\* C4: when the range holds no record, get_checksum returns Ok for every
\* limit, with count 0, no tracked key, nothing written and the checksum of
\* the seeded, unfed hasher.
C4_EmptyRange ==
    (Returned /\ InRange = <<>>) =>
        /\ result = Some(Ok(Finish(WithSeeds(1, 2, 3, 4))))
        /\ out = Some(Finish(WithSeeds(1, 2, 3, 4)))
        /\ total = 0
        /\ enumerate_start_key = None /\ enumerate_end_key = None
        /\ hasher.written = <<>>

C4_Witness ==
    /\ Returned /\ InRange = <<>> /\ Len(table) >= 2
    /\ IsSome(start_key) /\ IsSome(end_key) /\ Unwrap(start_key) > Unwrap(end_key)
    /\ limit = Some(0)
    /\ Unwrap(result).ok

\* C5: two executions over the same snapshot with the same start_key,
\* end_key and limit end in the same outcome: same result (checksum or
\* error), same record count, same first and last key.
SameArguments ==
    /\ IsSome(prev)
    /\ Unwrap(prev).start_key = start_key
    /\ Unwrap(prev).end_key = end_key
    /\ Unwrap(prev).limit = limit

C6_ErrorAborts ==
    /\ IsSome(out) => ReturnedOk /\ out = Some(Unwrap(result).checksum)
    /\ (Returned /\ FirstBad > 0 /\ FirstBad <= Limit(limit)) =>
          /\ ~Unwrap(result).ok
          /\ out = None
          /\ visited = SubSeq(InRange, 1, FirstBad - 1)
          /\ hasher.written = KeyValueChunks(SubSeq(InRange, 1, FirstBad - 1))
    /\ ReturnedOk => \A i \in 1..total : InRange[i].readable

C6_Witness ==
    /\ Returned /\ FirstBad = 2 /\ Len(InRange) = 3
    /\ Unwrap(result).err = "read"
    /\ Len(visited) = 1

\* C7: the tracked first key is the key of the first visited record and
\* does not change once set, the tracked end key is the key of the latest
\* visited record, both are None exactly when nothing was visited, and
\* first key <= end key.
TrackedKeysInv ==
    /\ visited = SubSeq(InRange, 1, Len(visited))
    /\ (visited = <<>>) <=> (enumerate_start_key = None)
    /\ (visited = <<>>) <=> (enumerate_end_key = None)
    /\ visited # <<>> =>
          /\ enumerate_start_key = Some(visited[1].key)
          /\ enumerate_end_key = Some(visited[Len(visited)].key)
          /\ LexLeq(Unwrap(enumerate_start_key), Unwrap(enumerate_end_key))

C7_TrackedKeys ==
    /\ []TrackedKeysInv
    /\ [][(pc = "loop" /\ IsSome(enumerate_start_key))
             => enumerate_start_key' = enumerate_start_key]_vars

C7_Witness ==
    /\ pc = "loop" /\ Len(visited) = 2
    /\ enumerate_start_key = Some(visited[1].key)
    /\ enumerate_end_key = Some(visited[2].key)
    /\ enumerate_start_key # enumerate_end_key

\* C8: when every record of the walk was read and hashed, get_checksum
\* returns Ok even if a tracked key does not decode.
C8_DecodeFailureNonFatal ==
    (Returned /\ Unwrap(result).err # "read") => Unwrap(result).ok

\* What the code does instead: an undecodable tracked key makes get_checksum
\* return Err.
C8_DecodeFailureFatal ==
    (Returned /\ Unwrap(result).err # "read" /\ visited # <<>>) =>
        (Unwrap(result).ok <=>
            /\ Decodable(visited[1].key)
            /\ Decodable(visited[Len(visited)].key))

\* C9: with a limit L >= 1 and the first L records of the range readable,
\* get_checksum returns Ok whatever the later records are, while the same
\* range walked without a limit returns Err when a later record of the range
\* is unreadable.
FirstReadable(n) == \A i \in 1..Min(n, Len(InRange)) : InRange[i].readable

LimitedThenUnlimited ==
    /\ IsSome(prev)
    /\ IsSome(Unwrap(prev).limit) /\ Unwrap(Unwrap(prev).limit) >= 1
    /\ Unwrap(prev).start_key = start_key
    /\ Unwrap(prev).end_key = end_key
    /\ limit = None
    /\ FirstReadable(Unwrap(Unwrap(prev).limit))
    /\ FirstBad > Unwrap(Unwrap(prev).limit)

C9_LimitStopsBeforeNextRead ==
    /\ (Returned /\ IsSome(limit) /\ Limit(limit) >= 1
          /\ FirstReadable(Limit(limit))) => Unwrap(result).ok
    /\ (Returned /\ LimitedThenUnlimited) =>
          Unwrap(prev).result.ok /\ ~Unwrap(result).ok

\* The same statement for ranges whose first and L-th key decode, which the
\* code satisfies.
C9_TrackedKeysDecode(n) ==
    InRange # <<>> =>
        /\ Decodable(InRange[1].key)
        /\ Decodable(InRange[Min(n, Len(InRange))].key)

C9_LimitStopsBeforeNextReadDecodable ==
    /\ (Returned /\ IsSome(limit) /\ Limit(limit) >= 1
          /\ FirstReadable(Limit(limit))
          /\ C9_TrackedKeysDecode(Limit(limit))) => Unwrap(result).ok
    /\ (Returned /\ LimitedThenUnlimited
          /\ C9_TrackedKeysDecode(Unwrap(Unwrap(prev).limit))) =>
          Unwrap(prev).result.ok /\ ~Unwrap(result).ok

\* C10: for a table of pairwise distinct keys, when a walk with a limit
\* L >= 1 returns after visiting at least one record, a second walk over
\* [first_key, end_key] without a limit visits the same records in the same
\* order and returns the same checksum and count.
RewalkOfTracked ==
    /\ IsSome(prev)
    /\ Unwrap(prev).result.ok
    /\ Unwrap(prev).total >= 1
    /\ IsSome(Unwrap(prev).limit) /\ Unwrap(Unwrap(prev).limit) >= 1
    /\ limit = None
    /\ start_key = Some(Decode(Unwrap(Unwrap(prev).first)))
    /\ end_key = Some(Decode(Unwrap(Unwrap(prev).end)))

C10_PrefixConsistency ==
    (Returned /\ RewalkOfTracked /\ DistinctKeys) =>
        /\ visited = Unwrap(prev).visited
        /\ Unwrap(result) = Unwrap(prev).result
        /\ total = Unwrap(prev).total

C10_Witness ==
    /\ Returned /\ RewalkOfTracked /\ DistinctKeys
    /\ Unwrap(prev).total = 2
    /\ Len(table) = 3
    /\ Unwrap(prev).start_key = None /\ Unwrap(prev).end_key = None
    /\ Len(visited) = 2

\* The same statement without the distinct-keys condition.  It does not hold:
\* with duplicate keys the second walk also visits the duplicates of the end
\* key that the limit cut off.
C10_WithoutDistinctKeys ==
    (Returned /\ RewalkOfTracked) => visited = Unwrap(prev).visited

====
